---- MODULE Spec2Model ----
(***************************************************************************)
(* State-machine models of three helper scripts of oligocast:              *)
(* testing/deltatest2.py, the randomized delta fixture generator           *)
(* (specifications Spec and FairSpec), cmdcat.py, the command replay       *)
(* utility (specification CmdSpec), and testing/namerunner_parse.py, the   *)
(* log classifier (specification NameSpec).  In deltatest2.py every call   *)
(* of the pseudorandom generator is a nondeterministic                     *)
(* choice over the values the call can return.  The host part of an        *)
(* address is HostBits wide instead of 24 (IPv4) or 96 (IPv6) bits, and    *)
(* the network prefix sits directly above it.                              *)
(***************************************************************************)
EXTENDS Integers, Sequences, FiniteSets, TLC

(* ---- bounds of the model ---- *)
MaxAddrmax == 3
MaxNumops == 2
HostBits == 2
\* greatest repetition count in the lines given to cmdcat.py
MaxCount == 2
\* greatest number of lines given to namerunner_parse.py
MaxLines == 4

(* ---- program constants ---- *)
\* the value of 'a' before the first address is made
None == -1
\* network part of 0x0a000000 (10.0.0.0/8)
Prefix4 == 10
\* upper 16 bits, 0xfd05, of the network part of fd05:aaaa::/32
Prefix6 == 64773
\* cmdcat.py: failures in a row that are put up with, and the read size
FailLimit == 100
Get == 32768

VARIABLES pc, ipver, addrmax, numops, o, a, sources, delta, deltype, crit,
          out, err

\* cmdcat.py: position in the script, the line read by input() ('line'), the
\* failure counter, and what the handling of the current line has written
\* to stdout and to stderr
VARIABLES cpc, cline, fails, cout, cerr

cvars == <<cpc, cline, fails, cout, cerr>>

\* namerunner_parse.py: position in the script, the line of the loop
\* ('line') and the number of lines handled, the classifier state, the two
\* counters, and what the handling of the current line has printed
VARIABLES npc, nline, nidx, st_dir, st_name, st_rx, st_tx, cnt_ok, cnt_prob,
          nout

nvars == <<npc, nline, nidx, st_dir, st_name, st_rx, st_tx, cnt_ok, cnt_prob,
           nout>>

dvars == <<pc, ipver, addrmax, numops, o, a, sources, delta, deltype, crit,
           out, err>>

vars == <<pc, ipver, addrmax, numops, o, a, sources, delta, deltype, crit,
          out, err, cvars, nvars>>

(* ---- arithmetic helpers ---- *)
RECURSIVE Pow2(_)
Pow2(n) == IF n = 0 THEN 1 ELSE 2 * Pow2(n - 1)

RECURSIVE Xor(_, _)
Xor(x, y) ==
    IF x = 0 /\ y = 0 THEN 0
    ELSE (((x % 2) + (y % 2)) % 2) + 2 * Xor(x \div 2, y \div 2)

Range(s) == {s[i] : i \in 1..Len(s)}

(* ---- utility functions of the script ---- *)
HexDigit(d) ==
    <<"0", "1", "2", "3", "4", "5", "6", "7",
      "8", "9", "a", "b", "c", "d", "e", "f">>[d + 1]

RECURSIVE Hex(_)
Hex(n) == IF n < 16 THEN HexDigit(n) ELSE Hex(n \div 16) \o HexDigit(n % 16)

\* addrout(a): presentation form of the address, network part first
addrout(v, x) ==
    IF v = 4
    THEN ToString((x \div Pow2(HostBits)) % 256) \o "."
             \o ToString(x % Pow2(HostBits))
    ELSE Hex(x \div Pow2(HostBits)) \o "::"
             \o (IF x % Pow2(HostBits) = 0 THEN ""
                 ELSE Hex(x % Pow2(HostBits)))

RECURSIVE join(_, _)
join(sep, texts) ==
    IF Len(texts) = 0 THEN ""
    ELSE IF Len(texts) = 1 THEN texts[1]
    ELSE texts[1] \o sep \o join(sep, Tail(texts))

addrsout(v, a_s) ==
    IF Len(a_s) # 0
    THEN join(",", [i \in 1..Len(a_s) |-> addrout(v, a_s[i])])
    ELSE "-"

\* mkbits(l, d): hits[i] tells whether rnd.uniform(0, 1) < d held for bit i
RECURSIVE mkbits_shifted(_, _)
RECURSIVE mkbits(_, _)
mkbits_shifted(l, hits) ==
    IF l = 0 THEN 0
    ELSE mkbits_shifted(l - 1, hits) + (IF hits[l - 1] THEN Pow2(l) ELSE 0)

mkbits(l, hits) ==
    IF l = 0 THEN 0
    ELSE mkbits(l - 1, hits) + (IF hits[l - 1] THEN Pow2(l - 1) ELSE 0)

BaseAddr(v) == (IF v = 4 THEN Prefix4 ELSE Prefix6) * Pow2(HostBits)

mkaddr(v, b, hits) ==
    Xor(IF b = None THEN BaseAddr(v) ELSE b, mkbits(HostBits, hits))

\* sorted(list): ascending order, duplicates kept
RECURSIVE insert(_, _)
insert(x, s) ==
    IF Len(s) = 0 THEN <<x>>
    ELSE IF x <= s[1] THEN <<x>> \o s
    ELSE <<s[1]>> \o insert(x, Tail(s))

sorted_asis(s) == s

RECURSIVE sorted(_)
sorted(s) == IF Len(s) = 0 THEN <<>> ELSE insert(s[1], sorted(Tail(s)))

RECURSIVE sortedset(_)
sortedset(S) ==
    IF S = {} THEN <<>>
    ELSE LET m == CHOOSE x \in S : \A y \in S : x <= y
         IN  <<m>> \o sortedset(S \ {m})

(* ---- start-up ---- *)
Init ==
    /\ pc = "start"
    /\ ipver \in {4, 5, 6}
    /\ addrmax \in 0..MaxAddrmax
    /\ numops \in 0..MaxNumops
    /\ o = 0
    /\ a = None
    /\ sources = <<>>
    /\ delta = <<>>
    /\ deltype = ""
    /\ crit = <<>>
    /\ out = <<>>
    /\ err = <<>>
    /\ cpc = "off"
    /\ cline = ""
    /\ fails = 0
    /\ cout = <<>>
    /\ cerr = <<>>
    /\ npc = "off"
    /\ nline = ""
    /\ nidx = 0
    /\ st_dir = 0
    /\ st_name = "?"
    /\ st_rx = FALSE
    /\ st_tx = FALSE
    /\ cnt_ok = 0
    /\ cnt_prob = 0
    /\ nout = <<>>

ParamsValid_nonneg(v, am, n) == v \in {4, 6} /\ am >= 0 /\ n >= 1

ParamsValid(v, am, n) == v \in {4, 6} /\ am >= 1 /\ n >= 1

\* the exception of the first check that fails, and the line raising it
RaisedMsg(v, am, n) ==
    IF v # 4 /\ v # 6 THEN "ipver must be 4 or 6"
    ELSE IF am < 1 THEN "addrmax must be positive"
    ELSE "numops must be positive"

RaisedLine(v, am, n) ==
    IF v # 4 /\ v # 6 THEN 56 ELSE IF am < 1 THEN 58 ELSE 60

\* what the interpreter writes to stderr for the uncaught exception
Traceback(lineno, msg) ==
    << "Traceback (most recent call last):",
       "  File \"testing/deltatest2.py\", line " \o ToString(lineno)
           \o ", in <module>",
       "    raise Exception(\"" \o msg \o "\")",
       "Exception: " \o msg >>

CheckParams ==
    /\ pc = "start"
    /\ IF ParamsValid(ipver, addrmax, numops)
       THEN /\ pc' = "loop"
            /\ err' = err
       ELSE /\ pc' = "raised"
            /\ err' = err \o Traceback(RaisedLine(ipver, addrmax, numops),
                                       RaisedMsg(ipver, addrmax, numops))
    /\ UNCHANGED <<nvars, cvars, ipver, addrmax, numops, o, a, sources, delta, deltype,
                   crit, out>>

(* ---- operation selector (the head of the generate loop) ---- *)
LoopGuard_le(oo, n) == oo <= n

LoopGuard(oo, n) == oo < n

\* lt: rnd.uniform(0, 1) < 0.2;  ch: rnd.choice((False, True))
ChooseKind_nofirst(oo, lt, ch) ==
    IF lt THEN "" ELSE IF ch THEN "-" ELSE "+"

ChooseKind(oo, lt, ch) ==
    IF oo = 0 \/ lt THEN "" ELSE IF ch THEN "-" ELSE "+"

Select ==
    /\ pc = "loop"
    /\ LoopGuard(o, numops)
    /\ \E lt \in BOOLEAN, ch \in BOOLEAN :
           deltype' = ChooseKind(o, lt, ch)
    /\ delta' = <<>>
    /\ pc' = "while"
    /\ UNCHANGED <<nvars, cvars, ipver, addrmax, numops, o, a, sources, crit, out, err>>

(* ---- delta-set builder ---- *)
\* exclusive upper end of the range lencrit() draws from
lencritStop_wide(kind, am, src) ==
    IF kind = "-" THEN Len(src) + (Len(src) \div 4) + 2 ELSE am

lencritStop(kind, am, src) ==
    IF kind = "-" THEN Len(src) + (Len(src) \div 4) + 1 ELSE am

WhileCond_and(n, c1, c2) == n < c1 /\ n < c2

\* the while condition, c1 and c2 being the two results of lencrit()
WhileCond(n, c1, c2) == n < c1 \/ n < c2

\* the second lencrit() is only called when the first comparison fails
LoopTest ==
    /\ pc = "while"
    /\ \E c1 \in 0..(lencritStop(deltype, addrmax, sources) - 1) :
           IF Len(delta) < c1
           THEN /\ crit' = <<c1>>
                /\ pc' = "body"
           ELSE \E c2 \in 0..(lencritStop(deltype, addrmax, sources) - 1) :
                    /\ crit' = <<c1, c2>>
                    /\ pc' = IF WhileCond(Len(delta), c1, c2)
                             THEN "body" ELSE "apply"
    /\ UNCHANGED <<nvars, cvars, ipver, addrmax, numops, o, a, sources, delta, deltype,
                   out, err>>

\* the list a candidate is re-selected from
Pool(kind, src, d) == IF kind = "" THEN d ELSE src

\* re: rnd.uniform(0, 1) < 0.4 (0.6 for a subtractive delta)
BodyReselect ==
    /\ pc = "body"
    /\ Len(Pool(deltype, sources, delta)) # 0
    /\ \E i \in 1..Len(Pool(deltype, sources, delta)) :
           a' = Pool(deltype, sources, delta)[i]
    /\ delta' = Append(delta, a')
    /\ crit' = <<>>
    /\ pc' = "while"
    /\ UNCHANGED <<nvars, cvars, ipver, addrmax, numops, o, sources, deltype, out, err>>

\* the density rnd.uniform(0, modden) lets every set of bits be hit
BodySynth ==
    /\ pc = "body"
    /\ \E hits \in [0..(HostBits - 1) -> BOOLEAN] :
           a' = mkaddr(ipver, a, hits)
    /\ delta' = Append(delta, a')
    /\ crit' = <<>>
    /\ pc' = "while"
    /\ UNCHANGED <<nvars, cvars, ipver, addrmax, numops, o, sources, deltype, out, err>>

(* ---- ground-truth state tracker ---- *)
AbsoluteSources(d) == sorted(d)

RECURSIVE SubtractiveSources_inverted(_, _)
SubtractiveSources_inverted(src, d) ==
    IF Len(src) = 0 THEN <<>>
    ELSE IF src[1] \in Range(d)
         THEN <<src[1]>> \o SubtractiveSources_inverted(Tail(src), d)
         ELSE SubtractiveSources_inverted(Tail(src), d)

RECURSIVE SubtractiveSources(_, _)
SubtractiveSources(src, d) ==
    IF Len(src) = 0 THEN <<>>
    ELSE IF src[1] \notin Range(d)
         THEN <<src[1]>> \o SubtractiveSources(Tail(src), d)
         ELSE SubtractiveSources(Tail(src), d)

SubtractiveRejected_never(d) == FALSE

SubtractiveRejected(d) == Len(d) = 0

AdditiveSet_deltaonly(src, d) == Range(d)

AdditiveSet(src, d) == Range(src) \cup Range(d)

AdditiveRejected_gt(src, d, am) ==
    Cardinality(AdditiveSet(src, d)) > am \/ Len(d) = 0

AdditiveRejected_noempty(src, d, am) ==
    Cardinality(AdditiveSet(src, d)) >= am

AdditiveRejected(src, d, am) ==
    Cardinality(AdditiveSet(src, d)) >= am \/ Len(d) = 0

AdditiveSources_early(src, d, am) == sortedset(AdditiveSet(src, d))

\* the value of 'sources' when the additive branch is left
AdditiveSources(src, d, am) ==
    IF AdditiveRejected(src, d, am) THEN src
    ELSE sortedset(AdditiveSet(src, d))

ApplyAbsolute_rejecting ==
    /\ pc = "apply"
    /\ deltype = ""
    /\ IF Len(delta) = 0
       THEN /\ pc' = "loop"
            /\ UNCHANGED sources
       ELSE /\ pc' = "emit1"
            /\ sources' = AbsoluteSources(delta)
    /\ crit' = <<>>
    /\ UNCHANGED <<nvars, cvars, ipver, addrmax, numops, o, a, delta, deltype, out, err>>

ApplyAbsolute ==
    /\ pc = "apply"
    /\ deltype = ""
    /\ sources' = AbsoluteSources(delta)
    /\ crit' = <<>>
    /\ pc' = "emit1"
    /\ UNCHANGED <<nvars, cvars, ipver, addrmax, numops, o, a, delta, deltype, out, err>>

ApplySubtractive ==
    /\ pc = "apply"
    /\ deltype = "-"
    /\ IF SubtractiveRejected(delta)
       THEN /\ pc' = "loop"
            /\ UNCHANGED sources
       ELSE /\ pc' = "emit1"
            /\ sources' = SubtractiveSources(sources, delta)
    /\ crit' = <<>>
    /\ UNCHANGED <<nvars, cvars, ipver, addrmax, numops, o, a, delta, deltype, out, err>>

ApplyAdditive ==
    /\ pc = "apply"
    /\ deltype = "+"
    /\ pc' = IF AdditiveRejected(sources, delta, addrmax)
             THEN "loop" ELSE "emit1"
    /\ sources' = AdditiveSources(sources, delta, addrmax)
    /\ crit' = <<>>
    /\ UNCHANGED <<nvars, cvars, ipver, addrmax, numops, o, a, delta, deltype, out, err>>

(* ---- dual-stream serializer ---- *)
Echo(cmd) == "received command for x " \o cmd

DeltaCmd(v, kind, d) == "-E" \o kind \o addrsout(v, d)

SourceNote(v, src) == "note: x source setting: -E" \o addrsout(v, src)

EmitDelta ==
    /\ pc = "emit1"
    /\ out' = Append(out, DeltaCmd(ipver, deltype, delta))
    /\ pc' = "emit2"
    /\ UNCHANGED <<nvars, cvars, ipver, addrmax, numops, o, a, sources, delta, deltype,
                   crit, err>>

EmitDeltaEcho ==
    /\ pc = "emit2"
    /\ err' = Append(err, Echo(DeltaCmd(ipver, deltype, delta)))
    /\ pc' = "emit3"
    /\ UNCHANGED <<nvars, cvars, ipver, addrmax, numops, o, a, sources, delta, deltype,
                   crit, out>>

EmitQuery ==
    /\ pc = "emit3"
    /\ out' = Append(out, "?E")
    /\ pc' = "emit4"
    /\ UNCHANGED <<nvars, cvars, ipver, addrmax, numops, o, a, sources, delta, deltype,
                   crit, err>>

EmitQueryEcho ==
    /\ pc = "emit4"
    /\ err' = Append(err, Echo("?E"))
    /\ pc' = "emit5"
    /\ UNCHANGED <<nvars, cvars, ipver, addrmax, numops, o, a, sources, delta, deltype,
                   crit, out>>

EmitNote ==
    /\ pc = "emit5"
    /\ err' = Append(err, SourceNote(ipver, sources))
    /\ pc' = "count"
    /\ UNCHANGED <<nvars, cvars, ipver, addrmax, numops, o, a, sources, delta, deltype,
                   crit, out>>

Count_early ==
    /\ pc = "emit5"
    /\ o' = o + 1
    /\ pc' = "loop"
    /\ UNCHANGED <<nvars, cvars, ipver, addrmax, numops, a, sources, delta, deltype,
                   crit, out, err>>

Count ==
    /\ pc = "count"
    /\ o' = o + 1
    /\ pc' = "loop"
    /\ UNCHANGED <<nvars, cvars, ipver, addrmax, numops, a, sources, delta, deltype,
                   crit, out, err>>

(* ---- finish up ---- *)
Finish ==
    /\ pc = "loop"
    /\ ~LoopGuard(o, numops)
    /\ out' = Append(out, ".x")
    /\ pc' = "fin"
    /\ UNCHANGED <<nvars, cvars, ipver, addrmax, numops, o, a, sources, delta, deltype,
                   crit, err>>

FinishEcho ==
    /\ pc = "fin"
    /\ err' = Append(err, Echo(".x"))
    /\ pc' = "done"
    /\ UNCHANGED <<nvars, cvars, ipver, addrmax, numops, o, a, sources, delta, deltype,
                   crit, out>>

Next ==
    \/ CheckParams
    \/ Select
    \/ LoopTest
    \/ BodyReselect
    \/ BodySynth
    \/ ApplyAbsolute
    \/ ApplySubtractive
    \/ ApplyAdditive
    \/ EmitDelta
    \/ EmitDeltaEcho
    \/ EmitQuery
    \/ EmitQueryEcho
    \/ EmitNote
    \/ Count
    \/ Finish
    \/ FinishEcho

Spec == Init /\ [][Next]_vars

\* the selector taking the Absolute branch (o == 0, or the draw below 0.2)
SelectAbsolute == Select /\ deltype' = ""

\* the script keeps running, and a draw that is made again and again comes
\* out below 0.2 again and again
FairSpec == Spec /\ WF_vars(Next) /\ SF_vars(SelectAbsolute)

TypeOK ==
    /\ pc \in {"start", "raised", "loop", "while", "body", "apply", "emit1",
               "emit2", "emit3", "emit4", "emit5", "count", "fin", "done"}
    /\ o \in 0..MaxNumops

(* ---- reading the primary stream back (reference model of the DUT) ---- *)
CharAt(s, i) == SubSeq(s, i, i)

\* position of the first occurrence of character c in s, 0 when absent
FirstAt(s, c) ==
    IF \E k \in 1..Len(s) : CharAt(s, k) = c
    THEN CHOOSE k \in 1..Len(s) :
             /\ CharAt(s, k) = c
             /\ \A j \in 1..(k - 1) : CharAt(s, j) # c
    ELSE 0

RECURSIVE SplitAt(_, _)
SplitAt(s, c) ==
    IF FirstAt(s, c) = 0 THEN <<s>>
    ELSE <<SubSeq(s, 1, FirstAt(s, c) - 1)>>
             \o SplitAt(SubSeq(s, FirstAt(s, c) + 1, Len(s)), c)

DigitVal(c) == CHOOSE d \in 0..15 : HexDigit(d) = c

RECURSIVE ParseInt(_, _)
ParseInt(s, radix) ==
    IF Len(s) = 0 THEN 0
    ELSE ParseInt(SubSeq(s, 1, Len(s) - 1), radix) * radix
             + DigitVal(CharAt(s, Len(s)))

\* the address a presentation form stands for
ParseAddr(v, t) ==
    IF v = 4
    THEN ParseInt(SplitAt(t, ".")[1], 10) * Pow2(HostBits)
             + ParseInt(SplitAt(t, ".")[2], 10)
    ELSE ParseInt(SplitAt(t, ":")[1], 16) * Pow2(HostBits)
             + ParseInt(SplitAt(t, ":")[3], 16)

\* the part of a delta command after "-E"
CmdRest(line) == SubSeq(line, 3, Len(line))

CmdKind(line) ==
    IF CmdRest(line) = "-" THEN ""
    ELSE IF CharAt(line, 3) \in {"+", "-"} THEN CharAt(line, 3)
    ELSE ""

CmdList(line) ==
    IF CmdRest(line) = "-" THEN "-"
    ELSE IF CharAt(line, 3) \in {"+", "-"} THEN SubSeq(line, 4, Len(line))
    ELSE CmdRest(line)

\* the addresses a delta command carries, in order
CmdAddrs(v, line) ==
    IF CmdList(line) = "-" THEN <<>>
    ELSE [i \in 1..Len(SplitAt(CmdList(line), ",")) |->
              ParseAddr(v, SplitAt(CmdList(line), ",")[i])]

\* documented semantics of the three delta kinds, on sets
RefApply(S, kind, D) ==
    IF kind = "" THEN D
    ELSE IF kind = "+" THEN S \cup D
    ELSE S \ D

\* content of the reference model after the first j delta commands
RECURSIVE RefAfter(_, _, _)
RefAfter(v, lines, j) ==
    IF j = 0 THEN {}
    ELSE RefApply(RefAfter(v, lines, j - 1), CmdKind(lines[2 * j - 1]),
                  Range(CmdAddrs(v, lines[2 * j - 1])))

AfterAccept == pc \in {"emit1", "emit2", "emit3", "emit4", "emit5", "count"}

Running == pc \notin {"start", "raised"}

NoDup(s) == Cardinality(Range(s)) = Len(s)

(* ---- claims ---- *)

\* C1: after every accepted step (and so at every later point of the run)
\* the tracked list satisfies 0 <= len(sources) < addrmax.
C1_SourceBound ==
    Running => (0 <= Len(sources) /\ Len(sources) < addrmax)

\* an additive step has filled the list up to addrmax - 1 members
C1_Witness ==
    /\ pc = "count"
    /\ deltype = "+"
    /\ addrmax = MaxAddrmax
    /\ Len(sources) = addrmax - 1

\* C2: after every accepted step 'sources' has no duplicate address, and
\* after an accepted Absolute step it is the deduplicated sorted delta.
C2_NoDuplicates ==
    AfterAccept =>
        /\ NoDup(sources)
        /\ deltype = "" => sources = sortedset(Range(delta))

\* C3: replaying the emitted delta commands from the empty set with the
\* documented set semantics gives, after every step, exactly the list the
\* oracle's source-setting line of that step prints.
C3_OracleConsistent ==
    Running => \A j \in 1..(Len(err) \div 3) :
        err[3 * j] = SourceNote(ipver, sortedset(RefAfter(ipver, out, j)))

\* C4: o never exceeds numops; a finished run has emitted exactly numops
\* step pairs and then one termination pair, and ".x" is never followed by
\* another line on either stream.
C4_ExactlyNumops ==
    /\ Running => o <= numops
    /\ pc = "loop" => (Len(out) = 2 * o /\ Len(err) = 3 * o)
    /\ \A i \in 1..Len(out) :
           out[i] = ".x" => (i = Len(out) /\ pc \in {"fin", "done"})
    /\ \A i \in 1..Len(err) :
           err[i] = Echo(".x") => (i = Len(err) /\ pc = "done")
    /\ pc = "done" =>
           /\ o = numops
           /\ Len(out) = 2 * numops + 1
           /\ Len(err) = 3 * numops + 1
           /\ out[Len(out)] = ".x"
           /\ err[Len(err)] = Echo(".x")
           /\ \A j \in 1..numops :
                  /\ SubSeq(out[2 * j - 1], 1, 2) = "-E"
                  /\ out[2 * j] = "?E"
                  /\ err[3 * j - 2] = Echo(out[2 * j - 1])
                  /\ err[3 * j - 1] = Echo("?E")

\* a run of MaxNumops steps has terminated
C4_Witness == pc = "done" /\ numops = MaxNumops /\ Len(out) = 2 * numops + 1

\* C6: the first accepted step is an Absolute delta: no Additive or
\* Subtractive attempt is made while o = 0, and the first line of the
\* primary stream has the empty kind marker and fewer than addrmax addresses.
C6_FirstAbsolute ==
    /\ (Running /\ o = 0) => deltype = ""
    /\ Len(out) >= 1 =>
           /\ CmdKind(out[1]) = ""
           /\ Len(CmdAddrs(ipver, out[1])) < addrmax
           /\ out[1] = "-E" \o CmdList(out[1])

\* the first command, carrying two addresses, has just been written
C6_Witness ==
    /\ pc = "emit2"
    /\ o = 0
    /\ Len(out) = 1
    /\ Len(CmdAddrs(ipver, out[1])) = 2

\* C7: an attempt changes neither 'sources' nor o nor either stream until
\* it is accepted; a rejection happens only for an empty Subtractive delta,
\* an empty Additive delta or an Additive union of size >= addrmax, and
\* it returns to the head of the loop with the step still to be done.
C7_RejectFrame ==
    [][ /\ (pc \in {"while", "body"} \/ pc' \in {"while", "body", "apply"}
                \/ (pc = "apply" /\ pc' = "loop"))
            => (sources' = sources /\ o' = o /\ out' = out /\ err' = err)
        /\ (pc = "apply" /\ pc' = "loop")
            => /\ LoopGuard(o', numops)
               /\ \/ deltype = "-" /\ Len(delta) = 0
                  \/ deltype = "+" /\ Len(delta) = 0
                  \/ /\ deltype = "+"
                     /\ Cardinality(Range(sources) \cup Range(delta))
                            >= addrmax
      ]_vars

\* an Additive attempt has just been rejected for overflow
C7_Witness ==
    /\ pc = "loop"
    /\ deltype = "+"
    /\ Len(delta) > 0
    /\ Cardinality(Range(sources) \cup Range(delta)) >= addrmax

\* C8: an Additive attempt is accepted iff its delta is non-empty and the
\* deduplicated union with 'sources' has fewer than addrmax members; on
\* acceptance 'sources' is that union in strictly ascending order.
C8_AdditiveUnion ==
    [][ (pc = "apply" /\ deltype = "+") =>
            /\ pc' = "emit1" <=>
                   (/\ Len(delta) > 0
                    /\ Cardinality(Range(sources) \cup Range(delta))
                           < addrmax)
            /\ pc' = "emit1" =>
                   /\ Range(sources') = Range(sources) \cup Range(delta)
                   /\ \A i \in 1..(Len(sources') - 1) :
                          sources'[i] < sources'[i + 1]
      ]_vars

\* an accepted Additive step kept a member that its delta does not name
C8_Witness ==
    /\ pc = "emit1"
    /\ deltype = "+"
    /\ \E x \in Range(sources) : x \notin Range(delta)
    /\ \E x \in Range(delta) : x \in Range(sources)

\* C9: an accepted Subtractive step leaves in 'sources' exactly the
\* previous elements that do not occur in the delta, in their previous
\* order; absent delta members change nothing; the list never grows.
C9_SubtractiveFilter ==
    [][ (pc = "apply" /\ deltype = "-" /\ pc' = "emit1") =>
            LET Keep(x) == x \notin Range(delta)
            IN  /\ sources' = SelectSeq(sources, Keep)
                /\ Len(sources') <= Len(sources)
                /\ Range(delta) \cap Range(sources) = {}
                       => sources' = sources
      ]_vars

\* an accepted Subtractive step has removed something and kept something
C9_Witness ==
    /\ pc = "emit1"
    /\ deltype = "-"
    /\ Len(sources) >= 1
    /\ err[Len(err)] # SourceNote(ipver, sources)

\* C10: the primary stream never contains "-E+-" or "-E--"; an Additive or
\* Subtractive command that is emitted carries at least one address.
C10_NoEmptyDelta ==
    /\ \A i \in 1..Len(out) : out[i] \notin {"-E+-", "-E--"}
    /\ (AfterAccept /\ deltype \in {"+", "-"}) => Len(delta) > 0

\* the empty sentinel was emitted after the Absolute marker, and an
\* Additive command with an address was emitted too
C10_Witness ==
    /\ \E i \in 1..Len(out) : out[i] = "-E-"
    /\ \E i \in 1..Len(out) :
           /\ Len(out[i]) > 3
           /\ SubSeq(out[i], 1, 3) = "-E+"

(* ---- addresses on the streams ---- *)
NotePrefix == "note: x source setting: -E"

\* the addresses a source-setting line of the oracle stream lists
NoteAddrs(v, line) ==
    CmdAddrs(v, "-E" \o SubSeq(line, Len(NotePrefix) + 1, Len(line)))

InBaseNet(v, x) ==
    x \div Pow2(HostBits) = (IF v = 4 THEN Prefix4 ELSE Prefix6)

\* C11: every address in a delta, in 'sources', in 'a' or on either stream
\* has the network part of the base value: the bits above the host width
\* never change.
C11_BaseNetwork ==
    Running =>
        /\ a # None => InBaseNet(ipver, a)
        /\ \A x \in Range(delta) \cup Range(sources) : InBaseNet(ipver, x)
        /\ \A i \in 1..Len(out) :
               (i % 2 = 1 /\ out[i] # ".x") =>
                   \A x \in Range(CmdAddrs(ipver, out[i])) :
                       InBaseNet(ipver, x)
        /\ \A j \in 1..(Len(err) \div 3) :
               \A x \in Range(NoteAddrs(ipver, err[3 * j])) :
                   InBaseNet(ipver, x)

\* an address with every host bit set was made, tracked and reported
C11_Witness ==
    /\ pc = "count"
    /\ a = BaseAddr(ipver) + Pow2(HostBits) - 1
    /\ a \in Range(sources)
    /\ a \in Range(NoteAddrs(ipver, err[Len(err)]))

\* C12 as claimed: with addrmax = 1 the termination pair is never reached.
C12_NeverTerminates ==
    (Running /\ addrmax = 1) => pc \notin {"fin", "done"}

\* C12 as amended: with addrmax = 1 every Additive and every Subtractive
\* attempt is rejected and every Absolute attempt is accepted with an empty
\* delta, so only "-E-" steps are emitted; the run ends once numops Absolute
\* attempts were made, and with numops = 1 no attempt is ever rejected.
C12_OnlyAbsolute ==
    /\ [][ (addrmax = 1 /\ pc = "apply") =>
               /\ Len(delta) = 0
               /\ pc' = "emit1" <=> deltype = ""
               /\ pc' = "loop" <=> deltype \in {"+", "-"}
               /\ numops = 1 => deltype = "" ]_vars
    /\ [](addrmax = 1 =>
              \A i \in 1..Len(out) : out[i] \in {"-E-", "?E", ".x"})
    /\ []((addrmax = 1 /\ pc = "done") =>
              (o = numops /\ Len(out) = 2 * numops + 1))

\* with addrmax = 1, an Additive attempt was rejected after the first step
C12_Witness ==
    /\ addrmax = 1
    /\ pc = "loop"
    /\ o = 1
    /\ deltype = "+"
    /\ out = <<"-E-", "?E">>

\* C13 as claimed: a run started with an invalid parameter writes nothing
\* on the primary stream and nothing on the oracle stream (stderr).
C13_NoOutputAtAll ==
    (ipver \notin {4, 6} \/ addrmax < 1 \/ numops < 1) =>
        (out = <<>> /\ err = <<>>)

\* C13 as amended: a run started with an invalid parameter never enters the
\* generate loop and ends in the error state; nothing is written on the
\* primary stream, and stderr gets only the traceback of the exception:
\* no command echo and no source-setting line.
C13_StartupFailure ==
    (ipver \notin {4, 6} \/ addrmax < 1 \/ numops < 1) =>
        /\ pc \in {"start", "raised"}
        /\ out = <<>>
        /\ o = 0 /\ sources = <<>> /\ delta = <<>> /\ a = None
        /\ pc = "start" => err = <<>>
        /\ pc = "raised" =>
               /\ Len(err) = 4
               /\ err[1] = "Traceback (most recent call last):"
               /\ SubSeq(err[4], 1, 11) = "Exception: "
               /\ \A i \in 1..Len(err) :
                      /\ SubSeq(err[i], 1, 8) # "received"
                      /\ SubSeq(err[i], 1, 5) # "note:"

\* the start-up check has failed on addrmax
C13_Witness ==
    /\ pc = "raised"
    /\ ipver = 4
    /\ addrmax = 0
    /\ err[4] = "Exception: addrmax must be positive"

\* number of lines of the current step already on each stream
OutDone == IF pc = "emit1" THEN 0 ELSE IF pc \in {"emit2", "emit3"} THEN 1
           ELSE 2

ErrDone == IF pc \in {"emit1", "emit2"} THEN 0
           ELSE IF pc \in {"emit3", "emit4"} THEN 1
           ELSE IF pc = "emit5" THEN 2 ELSE 3

\* C15: an accepted step is reported in a fixed order, delta command, its
\* echo, "?E", its echo, then the source-setting line with the value of
\* 'sources' after the delta was applied in full; 'sources' does not change
\* while the step is reported, and o is incremented only after all five
\* lines are out.
C15_ReportOrder ==
    /\ [](AfterAccept =>
             /\ Len(out) = 2 * o + OutDone
             /\ Len(err) = 3 * o + ErrDone
             /\ OutDone >= 1 =>
                    out[2 * o + 1] = "-E" \o deltype \o addrsout(ipver, delta)
             /\ OutDone >= 2 => out[2 * o + 2] = "?E"
             /\ ErrDone >= 1 =>
                    err[3 * o + 1]
                        = "received command for x " \o out[2 * o + 1]
             /\ ErrDone >= 2 => err[3 * o + 2] = "received command for x ?E"
             /\ ErrDone >= 3 =>
                    err[3 * o + 3] = NotePrefix \o addrsout(ipver, sources))
    /\ [][ /\ AfterAccept =>
                  (sources' = sources /\ delta' = delta /\ deltype' = deltype)
           /\ (pc = "apply" /\ pc' = "emit1") =>
                  Range(sources') =
                      RefApply(Range(sources), deltype, Range(delta))
           /\ o' # o =>
                  /\ o' = o + 1
                  /\ pc = "count"
                  /\ Len(out) = 2 * o' /\ Len(err) = 3 * o'
         ]_vars

\* a Subtractive step that changed 'sources' is reported in full and is
\* about to be counted
C15_Witness ==
    /\ pc = "count"
    /\ deltype = "-"
    /\ o = 1
    /\ err[3] # err[6]

\* C16 as claimed: a candidate is appended by the Absolute and Additive
\* builders only while the running length is below both draws.
C16_BelowBoth ==
    (pc = "body" /\ deltype \in {"", "+"}) =>
        \A i \in 1..Len(crit) : Len(delta) < crit[i]

\* C16 as amended: a candidate is appended while the running length is
\* below at least one of the draws from [0, addrmax): below the first (the
\* second is then not made) or, failing that, below the second; the builder
\* stops only when the length is below neither of the two.
C16_BelowEither ==
    (Running /\ deltype \in {"", "+"}) =>
        /\ \A i \in 1..Len(crit) : crit[i] \in 0..(addrmax - 1)
        /\ pc = "body" =>
               /\ Len(crit) \in {1, 2}
               /\ Len(delta) < crit[Len(crit)]
               /\ Len(crit) = 2 => Len(delta) >= crit[1]
        /\ pc = "apply" =>
               /\ Len(crit) = 2
               /\ Len(delta) >= crit[1]
               /\ Len(delta) >= crit[2]

\* an Additive builder appends with the length not below the first draw
C16_Witness ==
    /\ pc = "body"
    /\ deltype = "+"
    /\ Len(delta) = 1
    /\ crit = <<0, 2>>

Ascending(s) == \A i \in 1..(Len(s) - 1) : s[i] <= s[i + 1]

\* C17: 'sources' is in ascending (non-decreasing) order in every state, and
\* so is the list of every source-setting line of the oracle stream.
C17_SourcesAscending ==
    Running =>
        /\ Ascending(sources)
        /\ \A j \in 1..(Len(err) \div 3) :
               Ascending(NoteAddrs(ipver, err[3 * j]))

\* an Absolute delta built in descending order was stored in ascending order
C17_Witness ==
    /\ pc = "count"
    /\ deltype = ""
    /\ Len(delta) = 2
    /\ delta[1] > delta[2]
    /\ sources = <<delta[2], delta[1]>>

C19_Terminates ==
    /\ (pc = "loop") ~> (pc = "done" /\ out[Len(out)] = ".x")
    /\ [][ /\ (pc = "apply" /\ deltype = "") => pc' = "emit1"
           /\ numops = 1 => (deltype' = "" /\ ~(pc = "apply" /\ pc' = "loop"))
         ]_vars

\* the second step is still to be done after an empty Subtractive attempt
\* was rejected
C19_Witness ==
    /\ pc = "loop"
    /\ o = 1
    /\ numops = 2
    /\ deltype = "-"
    /\ delta = <<>>

(* ======================= cmdcat.py ======================= *)

(* ---- text helpers: str.find, int(), float() ---- *)
\* line.find(c): index from 0 of the first occurrence, -1 when absent
find(s, c) == FirstAt(s, c) - 1

IsDigits(s) ==
    /\ Len(s) > 0
    /\ \A i \in 1..Len(s) :
           CharAt(s, i) \in {"0", "1", "2", "3", "4", "5", "6", "7", "8", "9"}

Signed(s) == Len(s) > 0 /\ CharAt(s, 1) \in {"+", "-"}

Unsigned(s) == IF Signed(s) THEN SubSeq(s, 2, Len(s)) ELSE s

\* int(s) succeeds: an optional sign and decimal digits
IntOK(s) == IsDigits(Unsigned(s))

IntVal(s) ==
    IF Signed(s) /\ CharAt(s, 1) = "-" THEN 0 - ParseInt(Unsigned(s), 10)
    ELSE ParseInt(Unsigned(s), 10)

\* float(s) succeeds: an optional sign, digits and at most one point
FloatOK(s) ==
    LET u == Unsigned(s)
        p == FirstAt(u, ".")
    IN  IF p = 0 THEN IsDigits(u)
        ELSE IsDigits(SubSeq(u, 1, p - 1) \o SubSeq(u, p + 1, Len(u)))

\* the number is below zero (sleep() refuses it)
FloatNegative(s) ==
    /\ Signed(s) /\ CharAt(s, 1) = "-"
    /\ \E i \in 2..Len(s) : CharAt(s, i) \notin {"0", "."}

(* ---- the lines on stdin and the files on disk ---- *)
EchoStrings == {"a", "", "a<b"}

InputLines ==
    {"", "#c", "_0.5", "_x", "_-1", "exit", "<f", "<", "x<f", "x>a", "bogus"}
        \cup {ToString(n) \o "<f" : n \in 0..MaxCount}
        \cup {">" \o t : t \in EchoStrings}
        \cup {ToString(n) \o ">" \o t : n \in 0..MaxCount, t \in EchoStrings}

\* what open() and the reads can give: no such file, or the file's content
FileResults ==
    {[ok |-> FALSE, data |-> ""], [ok |-> TRUE, data |-> ""],
     [ok |-> TRUE, data |-> "x"]}

\* the pieces fp.read(get) returns up to and including the first short one
RECURSIVE Chunks(_)
Chunks(data) ==
    IF Len(data) < Get THEN <<data>>
    ELSE <<SubSeq(data, 1, Get)>> \o Chunks(SubSeq(data, Get + 1, Len(data)))

(* ---- start-up and input ---- *)
CmdInit ==
    /\ cpc = "input"
    /\ cline = ""
    /\ fails = 0
    /\ cout = <<>>
    /\ cerr = <<>>
    /\ npc = "off"
    /\ nline = ""
    /\ nidx = 0
    /\ st_dir = 0
    /\ st_name = "?"
    /\ st_rx = FALSE
    /\ st_tx = FALSE
    /\ cnt_ok = 0
    /\ cnt_prob = 0
    /\ nout = <<>>
    /\ pc = "start"
    /\ ipver = 4
    /\ addrmax = 1
    /\ numops = 1
    /\ o = 0
    /\ a = None
    /\ sources = <<>>
    /\ delta = <<>>
    /\ deltype = ""
    /\ crit = <<>>
    /\ out = <<>>
    /\ err = <<>>

ReadLine ==
    /\ cpc = "input"
    /\ cline' \in InputLines
    /\ cpc' = "try"
    /\ cout' = <<>>
    /\ cerr' = <<>>
    /\ UNCHANGED <<fails, dvars, nvars>>

\* input() at the end of stdin: EOFError, raised outside the try statement
EndOfInput ==
    /\ cpc = "input"
    /\ cpc' = "eof"
    /\ cout' = <<>>
    /\ cerr' = <<"EOFError: EOF when reading a line">>
    /\ UNCHANGED <<cline, fails, dvars, nvars>>

(* ---- the try statement ---- *)
\* the branch of the if chain a line takes
Branch(l) ==
    IF Len(l) = 0 THEN "blank"
    ELSE IF CharAt(l, 1) = "#" THEN "comment"
    ELSE IF CharAt(l, 1) = "_" THEN "delay"
    ELSE IF l = "exit" THEN "exit"
    ELSE IF find(l, "<") >= 0 THEN "file"
    ELSE IF find(l, ">") >= 0 THEN "echo"
    ELSE "invalid"

TooMany_early(f) == f >= FailLimit

TooMany(f) == f > FailLimit

\* the end of the try statement: fails = 0
Succeed(wrote) ==
    /\ cout' = wrote
    /\ cerr' = <<>>
    /\ fails' = 0
    /\ cpc' = "input"
    /\ UNCHANGED <<cline, dvars, nvars>>

\* the except clause
Fail(wrote, msg) ==
    /\ cout' = wrote
    /\ fails' = fails + 1
    /\ IF TooMany(fails')
       THEN /\ cerr' = <<msg, "Too many failures, terminating">>
            /\ cpc' = "toomany"
       ELSE /\ cerr' = <<msg>>
            /\ cpc' = "input"
    /\ UNCHANGED <<cline, dvars, nvars>>

IntError(t) == "invalid literal for int() with base 10: '" \o t \o "'"

HandleIgnore ==
    /\ cpc = "try"
    /\ Branch(cline) \in {"blank", "comment"}
    /\ Succeed(<<>>)

HandleDelay ==
    /\ cpc = "try"
    /\ Branch(cline) = "delay"
    /\ LET t == SubSeq(cline, 2, Len(cline))
       IN  IF ~FloatOK(t)
           THEN Fail(<<>>, "could not convert string to float: '" \o t \o "'")
           ELSE IF FloatNegative(t)
           THEN Fail(<<>>, "sleep length must be non-negative")
           ELSE Succeed(<<>>)

\* exit() raises SystemExit, which 'except Exception' does not catch
HandleExit ==
    /\ cpc = "try"
    /\ Branch(cline) = "exit"
    /\ cpc' = "exited"
    /\ UNCHANGED <<cline, fails, cout, cerr, dvars, nvars>>

\* the count of a "<" or ">" line whose marker is at index k (from 0)
CountText(l, k) == SubSeq(l, 1, k)

CountOK(l, k) == k > 0 => IntOK(CountText(l, k))

CountOf(l, k) == IF k > 0 THEN IntVal(CountText(l, k)) ELSE 1

\* what the copies of the file that were opened write
RECURSIVE Copies(_, _)
Copies(opens, n) ==
    IF n = 0 THEN <<>> ELSE Copies(opens, n - 1) \o Chunks(opens[n].data)

HandleFile ==
    /\ cpc = "try"
    /\ Branch(cline) = "file"
    /\ LET lt == find(cline, "<")
           name == SubSeq(cline, lt + 2, Len(cline))
       IN  IF ~CountOK(cline, lt)
           THEN Fail(<<>>, IntError(CountText(cline, lt)))
           ELSE \E opens \in [1..CountOf(cline, lt) -> FileResults] :
                    IF \E i \in DOMAIN opens : ~opens[i].ok
                    THEN LET k == CHOOSE i \in DOMAIN opens :
                                      /\ ~opens[i].ok
                                      /\ \A j \in 1..(i - 1) : opens[j].ok
                         IN  Fail(Copies(opens, k - 1),
                                  "[Errno 2] No such file or directory: '"
                                      \o name \o "'")
                    ELSE Succeed(Copies(opens, Len(opens)))

\* count times the rest of the line and a newline
RECURSIVE Echoes(_, _)
Echoes(t, n) ==
    IF n <= 0 THEN <<>> ELSE <<t, "\n">> \o Echoes(t, n - 1)

EchoText(l, gt) == SubSeq(l, gt + 2, Len(l))

HandleEcho ==
    /\ cpc = "try"
    /\ Branch(cline) = "echo"
    /\ LET gt == find(cline, ">")
       IN  IF ~CountOK(cline, gt)
           THEN Fail(<<>>, IntError(CountText(cline, gt)))
           ELSE Succeed(Echoes(EchoText(cline, gt), CountOf(cline, gt)))

HandleInvalid ==
    /\ cpc = "try"
    /\ Branch(cline) = "invalid"
    /\ Fail(<<>>, "Invalid command input to cmdcat.py")

CmdNext ==
    \/ ReadLine
    \/ EndOfInput
    \/ HandleIgnore
    \/ HandleDelay
    \/ HandleExit
    \/ HandleFile
    \/ HandleEcho
    \/ HandleInvalid

CmdSpec == CmdInit /\ [][CmdNext]_vars

(* ---- claims about cmdcat.py ---- *)

\* C14: a line ">string" writes the string and a newline once, a line
\* "number>string" writes them 'number' times, whatever the string contains,
\* and neither counts as a failure.
C14_EchoWritten ==
    [][ cpc = "try" =>
            \A t \in EchoStrings :
                /\ cline = ">" \o t =>
                       (cout' = <<t, "\n">> /\ fails' = 0 /\ cerr' = <<>>)
                /\ \A n \in 0..MaxCount :
                       cline = ToString(n) \o ">" \o t =>
                           /\ cout' = Echoes(t, n)
                           /\ Len(cout') = 2 * n
                           /\ fails' = 0 /\ cerr' = <<>>
      ]_vars

\* C20: 'fails' counts the failing lines in a row: a line handled without
\* an exception (blank lines, comments and delays included) sets it to 0, a
\* failing line adds 1, and the script gives up exactly on a failing line
\* that comes after 100 failing lines in a row.
C20_ConsecutiveFails ==
    /\ [](fails \in 0..101 /\ (cpc # "toomany" => fails <= 100)
              /\ (cpc = "toomany" => fails = 101))
    /\ [][ cpc = "try" =>
               /\ (cerr' = <<>> /\ cpc' # "exited") => fails' = 0
               /\ cerr' # <<>> => fails' = fails + 1
               /\ cline \in {"", "#c", "_0.5"} => fails' = 0
               /\ cpc' = "toomany" <=> (cerr' # <<>> /\ fails = 100)
         ]_vars

\* the 101st failing line in a row has ended the script
C20_Witness ==
    /\ cpc = "toomany"
    /\ fails = 101
    /\ cerr[Len(cerr)] = "Too many failures, terminating"

(***************************************************************************)
(* testing/namerunner_parse.py: reads the log of namerunner.sh and counts  *)
(* the runs that did and did not behave as the name they ran under        *)
(* demands.  The regular expressions are matched on the real text of the   *)
(* line, the way re.match does: anchored at the start, '.*' standing for   *)
(* any text.                                                               *)
(***************************************************************************)

\* sub occurs in s at position i
StartsAt(s, sub, i) ==
    /\ i >= 1
    /\ i + Len(sub) - 1 <= Len(s)
    /\ SubSeq(s, i, i + Len(sub) - 1) = sub

\* position of the first occurrence of sub in s at or after k, 0 when absent
FindFrom(s, sub, k) ==
    IF \E i \in k..Len(s) : StartsAt(s, sub, i)
    THEN CHOOSE i \in k..Len(s) :
             /\ StartsAt(s, sub, i)
             /\ \A j \in k..(i - 1) : ~StartsAt(s, sub, j)
    ELSE 0

\* last position of the longest run of characters of 'chars' that starts
\* at k (k - 1 for an empty run): what a greedy character class takes
RunEnd(s, k, chars) ==
    CHOOSE e \in (k - 1)..Len(s) :
        /\ \A i \in k..e : CharAt(s, i) \in chars
        /\ e = Len(s) \/ CharAt(s, e + 1) \notin chars

ExpectHead == "# expected direction: "

NameTag == " name: \""

UsageHead == "USAGE: "

UsageTail == " options..."

\* where group 1 of re_expect, the run of [-01], ends
DirEnd(l) == RunEnd(l, Len(ExpectHead) + 1, {"-", "0", "1"})

\* the places where ' name: "' can be matched: after group 1, with a
\* closing quote somewhere behind it
NamePlaces(l) ==
    {p \in (DirEnd(l) + 1)..Len(l) :
         /\ StartsAt(l, NameTag, p)
         /\ FindFrom(l, "\"", p + Len(NameTag)) > 0}

re_expect(l) == StartsAt(l, ExpectHead, 1) /\ NamePlaces(l) # {}

\* m.group(1) of re_expect
expect_dir(l) == SubSeq(l, Len(ExpectHead) + 1, DirEnd(l))

\* m.group(2) of re_expect: the greedy '.*' takes the last place
expect_name(l) ==
    LET p == CHOOSE q \in NamePlaces(l) : \A r \in NamePlaces(l) : r <= q
        b == p + Len(NameTag)
    IN  SubSeq(l, b, FindFrom(l, "\"", b) - 1)

\* where group 1 of re_usage, the run of non-blanks, ends
UsageNameEnd(l) ==
    LET p == FindFrom(l, " ", Len(UsageHead) + 1)
    IN  IF p = 0 THEN Len(l) ELSE p - 1

re_usage(l) ==
    /\ StartsAt(l, UsageHead, 1)
    /\ StartsAt(l, UsageTail, UsageNameEnd(l) + 1)

\* m.group(1) of re_usage
usage_name(l) == SubSeq(l, Len(UsageHead) + 1, UsageNameEnd(l))

\* '.*first.*second': first somewhere at or after k, second behind it
InOrder(l, k, first, second) ==
    LET p == FindFrom(l, first, k)
    IN  p > 0 /\ FindFrom(l, second, p + Len(first)) > 0

re_rxind(l) == InOrder(l, 1, "-m", "multi")

re_txind(l) == InOrder(l, 1, "-j", "join")

re_abnorm(l) == StartsAt(l, "#", 1) /\ InOrder(l, 2, "exit", "abnormal")

re_exit(l) == StartsAt(l, "# exit", 1)

\* the branch of the loop body that handles a line
Class(l) ==
    IF re_expect(l) THEN "expect"
    ELSE IF re_usage(l) THEN "usage"
    ELSE IF re_rxind(l) THEN "rx"
    ELSE IF re_txind(l) THEN "tx"
    ELSE IF re_abnorm(l) THEN "abnorm"
    ELSE IF re_exit(l) THEN "exit"
    ELSE "other"

\* the lines the log is made of
NameLines ==
    {"# expected direction: 0 name: \"x\"",
     "# expected direction: 1 name: \"x\"",
     "# expected direction: -1 name: \"x\"",
     "# expected direction: 0 name: \"a\" name: \"!\" end",
     "# expected direction:  name: \"x\"",
     "USAGE: x options...",
     "USAGE: oligocast options...",
     " -m multi",
     " -j join",
     " -j join -m multi",
     " -multi",
     "# exit",
     "# exit 0",
     "# exit -m multi",
     "# exit abnormal",
     "#exit",
     ""}

NameInit ==
    /\ npc = "loop"
    /\ nline = ""
    /\ nidx = 0
    /\ st_dir = 0
    /\ st_name = "?"
    /\ st_rx = FALSE
    /\ st_tx = FALSE
    /\ cnt_ok = 0
    /\ cnt_prob = 0
    /\ nout = <<>>
    /\ cpc = "off"
    /\ cline = ""
    /\ fails = 0
    /\ cout = <<>>
    /\ cerr = <<>>
    /\ pc = "start"
    /\ ipver = 4
    /\ addrmax = 1
    /\ numops = 1
    /\ o = 0
    /\ a = None
    /\ sources = <<>>
    /\ delta = <<>>
    /\ deltype = ""
    /\ crit = <<>>
    /\ out = <<>>
    /\ err = <<>>

\* the comment lines of the log are copied to the output
Copied(l) == IF Len(l) > 0 /\ CharAt(l, 1) = "#" THEN <<l>> ELSE <<>>

\* repr() of a string without quotes or backslashes
repr(s) == "'" \o s \o "'"

\* one turn of the loop: the next line of the input is l, of class c, and
\* its handling prints 'printed' behind the copy of the line
Turn(l, c, printed) ==
    /\ npc = "loop"
    /\ nidx < MaxLines
    /\ Class(l) = c
    /\ nline' = l
    /\ nidx' = nidx + 1
    /\ nout' = Copied(l) \o printed
    /\ UNCHANGED <<cvars, dvars>>

HandleExpect ==
    \E l \in NameLines :
        /\ Turn(l, "expect", <<>>)
        /\ IntOK(expect_dir(l))
        /\ st_dir' = IntVal(expect_dir(l))
        /\ st_name' = IF expect_name(l) = "!" THEN "oligocast"
                      ELSE expect_name(l)
        /\ st_rx' = FALSE
        /\ st_tx' = FALSE
        /\ UNCHANGED <<npc, cnt_ok, cnt_prob>>

\* int() of a direction that is no number raises ValueError, which nothing
\* catches: the script ends without its report
ExpectRaises ==
    \E l \in NameLines :
        /\ Turn(l, "expect", <<>>)
        /\ ~IntOK(expect_dir(l))
        /\ npc' = "raised"
        /\ UNCHANGED <<st_dir, st_name, st_rx, st_tx, cnt_ok, cnt_prob>>

HandleUsage ==
    \E l \in NameLines :
        /\ Turn(l, "usage",
                IF usage_name(l) # st_name
                THEN <<l, "!!! problem with name: exp " \o repr(st_name)
                              \o " got " \o repr(usage_name(l))>>
                ELSE <<l>>)
        /\ cnt_prob' = IF usage_name(l) # st_name THEN cnt_prob + 1
                       ELSE cnt_prob
        /\ UNCHANGED <<npc, st_dir, st_name, st_rx, st_tx, cnt_ok>>

HandleRx ==
    \E l \in NameLines :
        /\ Turn(l, "rx", <<l>>)
        /\ st_rx' = TRUE
        /\ UNCHANGED <<npc, st_dir, st_name, st_tx, cnt_ok, cnt_prob>>

HandleTx ==
    \E l \in NameLines :
        /\ Turn(l, "tx", <<l>>)
        /\ st_tx' = TRUE
        /\ UNCHANGED <<npc, st_dir, st_name, st_rx, cnt_ok, cnt_prob>>

HandleAbnormal ==
    \E l \in NameLines :
        /\ Turn(l, "abnorm", <<"!!! problem with exit status">>)
        /\ cnt_prob' = cnt_prob + 1
        /\ UNCHANGED <<npc, st_dir, st_name, st_rx, st_tx, cnt_ok>>

ExitProblem_wantedonly(d, rx, tx) ==
    IF d <= 0 /\ ~rx THEN "!!! doesn't seem to do receive"
    ELSE IF d >= 0 /\ ~tx THEN "!!! doesn't seem to do send"
    ELSE ""

\* what is wrong with a completed run, "" when nothing is
ExitProblem(d, rx, tx) ==
    IF d <= 0 /\ ~rx THEN "!!! doesn't seem to do receive"
    ELSE IF d >= 0 /\ ~tx THEN "!!! doesn't seem to do send"
    ELSE IF d > 0 /\ rx THEN "!!! seems to do receive"
    ELSE IF d < 0 /\ tx THEN "!!! seems to do send"
    ELSE ""

HandleCompletion ==
    \E l \in NameLines :
        LET problem == ExitProblem(st_dir, st_rx, st_tx)
        IN  /\ Turn(l, "exit", IF problem # "" THEN <<problem>> ELSE <<>>)
            /\ cnt_prob' = IF problem # "" THEN cnt_prob + 1 ELSE cnt_prob
            /\ cnt_ok' = IF problem # "" THEN cnt_ok ELSE cnt_ok + 1
            /\ UNCHANGED <<npc, st_dir, st_name, st_rx, st_tx>>

HandleOther ==
    \E l \in NameLines :
        /\ Turn(l, "other", <<>>)
        /\ UNCHANGED <<npc, st_dir, st_name, st_rx, st_tx, cnt_ok, cnt_prob>>

\* the input is used up: the two lines of the report
Report ==
    /\ npc = "loop"
    /\ npc' = "done"
    /\ nout' = <<"# OK runs: " \o ToString(cnt_ok),
                 "# problems: " \o ToString(cnt_prob)>>
    /\ UNCHANGED <<nline, nidx, st_dir, st_name, st_rx, st_tx, cnt_ok,
                   cnt_prob, cvars, dvars>>

NameNext ==
    \/ HandleExpect
    \/ ExpectRaises
    \/ HandleUsage
    \/ HandleRx
    \/ HandleTx
    \/ HandleAbnormal
    \/ HandleCompletion
    \/ HandleOther
    \/ Report

NameSpec == NameInit /\ [][NameNext]_vars

\* a turn of the loop has just handled a line of class c
Handled(c) == nidx' = nidx + 1 /\ Class(nline') = c

\* the capabilities seen are those the expected direction demands
DirectionMet(d, rx, tx) ==
    \/ d = 0 /\ rx /\ tx
    \/ d > 0 /\ tx /\ ~rx
    \/ d < 0 /\ rx /\ ~tx

\* C21: a line handled as a test completion ("# exit" that no earlier
\* pattern matches) adds one to exactly one of cnt_ok and cnt_prob, and to
\* cnt_ok exactly when the capabilities seen since the last "expected
\* direction" line are those the direction demands: both for 0, send only
\* for a positive one, receive only for a negative one.  st_rx and st_tx
\* become true only by their indicator lines and false only by an
\* "expected direction" line.
C21_CompletionCounted ==
    /\ [][ Handled("exit") =>
               /\ <<cnt_ok', cnt_prob'>> \in {<<cnt_ok + 1, cnt_prob>>,
                                              <<cnt_ok, cnt_prob + 1>>}
               /\ cnt_ok' = cnt_ok + 1 <=> DirectionMet(st_dir, st_rx, st_tx)
               /\ st_rx' = st_rx /\ st_tx' = st_tx
         ]_vars
    /\ [][ /\ (st_rx /\ ~st_rx') \/ (st_tx /\ ~st_tx') => Handled("expect")
           /\ ~st_rx /\ st_rx' => Handled("rx")
           /\ ~st_tx /\ st_tx' => Handled("tx")
           /\ Handled("rx") => st_rx'
           /\ Handled("tx") => st_tx'
         ]_vars

\* a run expected to receive only, which showed the receive capability and
\* not the send one, has completed and is the first run counted as good
C21_Witness ==
    /\ npc = "loop"
    /\ nline = "# exit"
    /\ st_dir = -1 /\ st_rx /\ ~st_tx
    /\ cnt_ok = 1
    /\ cnt_prob = 0
    /\ nout = <<"# exit">>
====
